---- MODULE Spec2Model ----
(***************************************************************************)
(* State-machine model of OrchestratorAgent                                *)
(* (src/backend/agents/orchestrator/agent.py): the priority queue, the     *)
(* scheduler loop, task execution under the semaphore, handle_error, the   *)
(* pipeline coordinator and the health sweep.                              *)
(*                                                                         *)
(* Time is counted in minutes; every datetime.now() reading is `now`.      *)
(* ScheduledTask objects are mutable and have identity: an object is an    *)
(* index into `tasks`, and every collection holds object indices.          *)
(***************************************************************************)
EXTENDS Integers, Sequences, FiniteSets, TLC

VARIABLES now, tasks, task_queue, pending, running, sem_value, active_tasks,
          completed_tasks, failed_tasks, registered_agents, agent_health,
          is_running, loops, last_discovery, last_newsletter, hist,
          failed_probes, agents, last_result

vars == <<now, tasks, task_queue, pending, running, sem_value, active_tasks,
          completed_tasks, failed_tasks, registered_agents, agent_health,
          is_running, loops, last_discovery, last_newsletter, hist,
          failed_probes, agents, last_result>>

(* ---------------------------- bounds ----------------------------------- *)
MaxTasks == 2
MaxTime == 2
MaxLoops == 1
RestartLoops == 2
MaxErrors == 1
MaxProbeFails == 1
MaxPipelineTasks == 4
LiveMaxTasks == 1
LiveMaxTime == 1
QueueMaxTasks == 2
QueueMaxRetries == 1

(* ---------------------- program constants ------------------------------ *)
CRITICAL == 1
HIGH == 2
MEDIUM == 3
LOW == 4
BACKGROUND == 5
DefaultMaxRetries == 3
UnhealthyThreshold == 5
HealthCheckMinutes == 5
TickSleep == 30
ErrorSleep == 60
NewsletterCadence == 2880
max_concurrent_tasks == 1
discovery_interval == 2

None == "None"
NoTime == -1
NoTask == <<"none", 0>>
AgentIds == {"scout"}
Targets == {"scout", "curator", "writer"}

Range(s) == {s[i] : i \in 1..Len(s)}

RECURSIVE Pow2(_)
Pow2(n) == IF n = 0 THEN 1 ELSE 2 * Pow2(n - 1)

(* ------------------------- ScheduledTask ------------------------------- *)
ScheduledTask(id, target, prio, when) ==
    [task_id |-> id, agent_target |-> target, priority |-> prio,
     scheduled_time |-> when, retry_count |-> 0,
     max_retries |-> DefaultMaxRetries]

(* ScheduledTask.__lt__ with the priority comparison left out.             *)
TaskLt_TimeOnly(x, y) == x.scheduled_time < y.scheduled_time

(* ScheduledTask.__lt__ with the time comparison left out.                 *)
TaskLt_PriorityOnly(x, y) == x.priority < y.priority

TaskLt(x, y) ==
    IF x.priority # y.priority
    THEN x.priority < y.priority
    ELSE x.scheduled_time < y.scheduled_time

(* ------------------------------ heapq ---------------------------------- *)
(* Positions are 0-based as in heapq; heap[p + 1] is the element at p.     *)
RECURSIVE SiftDownLoop(_, _, _, _, _)
SiftDownLoop(tk, heap, startpos, pos, newitem) ==
    IF pos > startpos
    THEN LET parentpos == (pos - 1) \div 2
             parent == heap[parentpos + 1]
         IN  IF TaskLt(tk[newitem], tk[parent])
             THEN SiftDownLoop(tk, [heap EXCEPT ![pos + 1] = parent],
                               startpos, parentpos, newitem)
             ELSE [heap EXCEPT ![pos + 1] = newitem]
    ELSE [heap EXCEPT ![pos + 1] = newitem]

SiftDown(tk, heap, startpos, pos) ==
    SiftDownLoop(tk, heap, startpos, pos, heap[pos + 1])

RECURSIVE SiftUpLoop(_, _, _, _, _)
SiftUpLoop(tk, heap, startpos, pos, newitem) ==
    LET endpos == Len(heap)
        childpos == 2 * pos + 1
        rightpos == childpos + 1
    IN  IF childpos < endpos
        THEN LET c == IF rightpos < endpos
                         /\ ~TaskLt(tk[heap[childpos + 1]], tk[heap[rightpos + 1]])
                      THEN rightpos ELSE childpos
             IN  SiftUpLoop(tk, [heap EXCEPT ![pos + 1] = heap[c + 1]],
                            startpos, c, newitem)
        ELSE SiftDown(tk, [heap EXCEPT ![pos + 1] = newitem], startpos, pos)

SiftUp(tk, heap, pos) == SiftUpLoop(tk, heap, pos, pos, heap[pos + 1])

(* A push that appends the item and leaves it where it is.                 *)
HeapPush_Append(tk, heap, item) == Append(heap, item)

HeapPush(tk, heap, item) == SiftDown(tk, Append(heap, item), 0, Len(heap))

HeapPopRest(tk, heap) ==
    LET lastelt == heap[Len(heap)]
        rest == SubSeq(heap, 1, Len(heap) - 1)
    IN  IF rest = <<>> THEN <<>>
        ELSE SiftUp(tk, [rest EXCEPT ![1] = lastelt], 0)

(* The dispatch test of _scheduler_loop: scheduled_time <= current_time.   *)
Due(st, t) == st.scheduled_time <= t

(* The inner while of _scheduler_loop: pop while the root is due.          *)
RECURSIVE PopDue(_, _, _, _)
PopDue(tk, heap, t, acc) ==
    IF heap # <<>> /\ Due(tk[heap[1]], t)
    THEN PopDue(tk, HeapPopRest(tk, heap), t, Append(acc, heap[1]))
    ELSE [heap |-> heap, popped |-> acc]

(* ------------------------------ state ---------------------------------- *)
(* hist[o] records what the handler did with object o so far: how often it *)
(* returned status success, how often it failed (status error or raise),   *)
(* and how many discovery runs of o reported items.  failed_probes[a]      *)
(* counts the health probes of agent a that failed in a row since its      *)
(* registration or its last successful probe.                              *)
(* agents holds the keys of MultiAgentSystem.agents; last_result is what   *)
(* the last call of MultiAgentSystem.execute_task returned.                *)
NoResult == [agent_type |-> None, known |-> FALSE, status |-> None,
             keys |-> {}, invoked |-> None]

NoHist == [successes |-> 0, failures |-> 0, nonempty |-> 0]

NoHealth == [present |-> FALSE, is_healthy |-> FALSE,
             error_count |-> 0, success_count |-> 0]

(* AgentHealth(...) as created by _register_agent.                         *)
AgentHealth == [present |-> TRUE, is_healthy |-> TRUE,
                error_count |-> 0, success_count |-> 0]

Init ==
    /\ now = 0
    /\ tasks = <<>>
    /\ task_queue = <<>>
    /\ pending = <<>>
    /\ running = <<>>
    /\ sem_value = max_concurrent_tasks
    /\ active_tasks = {}
    /\ completed_tasks = <<>>
    /\ failed_tasks = <<>>
    /\ registered_agents = <<>>
    /\ agent_health = [a \in AgentIds |-> NoHealth]
    /\ is_running = FALSE
    /\ loops = [i \in 1..MaxLoops |-> [pc |-> "off", todo |-> <<>>, size |-> 0, erred |-> FALSE]]
    /\ last_discovery = NoTime
    /\ last_newsletter = NoTime
    /\ hist = <<>>
    /\ failed_probes = [a \in AgentIds |-> 0]
    /\ agents = {}
    /\ last_result = NoResult

(* ----------------------- dict helpers ---------------------------------- *)
(* active_tasks is a dict task_id -> ScheduledTask, held as a set of       *)
(* [id, obj] entries with at most one entry per id.                        *)
DictHas(d, id) == \E e \in d : e.id = id
DictGet(d, id) == (CHOOSE e \in d : e.id = id).obj
DictPut(d, id, o) == {e \in d : e.id # id} \cup {[id |-> id, obj |-> o]}
(* A pop that leaves the entry in the dict.                                *)
DictPop_Keep(d, id) == d

DictPop(d, id) == {e \in d : e.id # id}

InHealth(a) == a \in DOMAIN agent_health /\ agent_health[a].present

(* Remove one occurrence of o from the sequence s.                         *)
RECURSIVE RemoveOne(_, _)
RemoveOne(s, o) ==
    IF s = <<>> THEN <<>>
    ELSE IF Head(s) = o THEN Tail(s)
    ELSE <<Head(s)>> \o RemoveOne(Tail(s), o)

(* ------------------------- _add_task_to_queue -------------------------- *)
(* Creates the object `rec` and pushes it on the heap.                     *)
AddTaskToQueue(rec) ==
    LET o == Len(tasks) + 1
        tk == Append(tasks, rec)
    IN  /\ tasks' = tk
        /\ hist' = Append(hist, NoHist)
        /\ task_queue' = HeapPush(tk, task_queue, o)

(* A producer hands a ScheduledTask of its own to _add_task_to_queue.      *)
Enqueue(id, target, prio, delay) ==
    /\ AddTaskToQueue(ScheduledTask(<<"task", id>>, target, prio, now + delay))
    /\ UNCHANGED <<now, pending, running, sem_value, active_tasks,
                   completed_tasks, failed_tasks, registered_agents,
                   agent_health, is_running, loops, last_discovery,
                   last_newsletter,
                   failed_probes, agents, last_result>>

(* ---------------------- _schedule_content_discovery -------------------- *)
(* The interval test one minute short.                                     *)
DiscoveryDue_Early(last, t) == last = NoTime \/ t - last >= discovery_interval - 1

DiscoveryDue(last, t) == last = NoTime \/ t - last >= discovery_interval

ScheduleDiscoveryEffect ==
    /\ IF DiscoveryDue(last_discovery, now)
       THEN /\ AddTaskToQueue(ScheduledTask(<<"discovery", now>>, "scout", HIGH, now))
            /\ last_discovery' = now
       ELSE UNCHANGED <<tasks, hist, task_queue, last_discovery>>
    /\ UNCHANGED <<now, pending, running, sem_value, active_tasks,
                   completed_tasks, failed_tasks, registered_agents,
                   agent_health, is_running, loops, last_newsletter,
                   failed_probes, agents>>

ScheduleDiscovery == ScheduleDiscoveryEffect /\ UNCHANGED last_result

(* ---------------------- _coordinate_content_pipeline ------------------- *)
CuratorTrigger(h) == h.present /\ h.is_healthy /\ h.success_count > 0

NewsletterDue(last, t) == last = NoTime \/ t - last >= NewsletterCadence

CoordinatePipelineEffect ==
    LET curator == CuratorTrigger(agent_health["scout"])
        writer == NewsletterDue(last_newsletter, now)
        n == (IF curator THEN 1 ELSE 0) + (IF writer THEN 1 ELSE 0)
        o1 == Len(tasks) + 1
        tk1 == IF curator
               THEN Append(tasks, ScheduledTask(<<"curator", now>>, "curator", HIGH, now))
               ELSE tasks
        q1 == IF curator THEN HeapPush(tk1, task_queue, o1) ELSE task_queue
        o2 == Len(tk1) + 1
        tk2 == IF writer
               THEN Append(tk1, ScheduledTask(<<"newsletter", now>>, "writer", CRITICAL, now))
               ELSE tk1
        q2 == IF writer THEN HeapPush(tk2, q1, o2) ELSE q1
    IN  /\ tasks' = tk2
        /\ task_queue' = q2
        /\ hist' = hist \o [i \in 1..n |-> NoHist]
        /\ last_newsletter' = IF writer THEN now ELSE last_newsletter
        /\ UNCHANGED <<now, pending, running, sem_value, active_tasks,
                       completed_tasks, failed_tasks, registered_agents,
                       agent_health, is_running, loops, last_discovery,
                   failed_probes, agents>>

CoordinatePipeline == CoordinatePipelineEffect /\ UNCHANGED last_result

(* --------------------------- _handle_agent_error ----------------------- *)
RetryDelay(retry_count) == Pow2(retry_count)

HealthAfterError(h) ==
    [h EXCEPT !.error_count = h.error_count + 1,
              !.is_healthy = (h.error_count + 1 < UnhealthyThreshold)]

(* A retry test that lets a task with retry_count = max_retries through.   *)
CanRetry_Inclusive(st) == st.retry_count <= st.max_retries

(* failed_task.retry_count < failed_task.max_retries                       *)
CanRetry(st) == st.retry_count < st.max_retries

HandleErrorEffect(agent_id, task_id) ==
    IF agent_id = None
    THEN UNCHANGED <<tasks, task_queue, active_tasks, failed_tasks, agent_health>>
    ELSE /\ IF InHealth(agent_id)
            THEN /\ agent_health' = [agent_health EXCEPT
                                       ![agent_id] = HealthAfterError(@)]
            ELSE UNCHANGED agent_health
         /\ IF task_id # NoTask /\ DictHas(active_tasks, task_id)
            THEN LET o == DictGet(active_tasks, task_id)
                 IN  /\ active_tasks' = DictPop(active_tasks, task_id)
                     /\ IF CanRetry(tasks[o])
                        THEN LET tk == [tasks EXCEPT
                                   ![o].retry_count = @ + 1,
                                   ![o].scheduled_time =
                                       now + RetryDelay(tasks[o].retry_count + 1)]
                             IN  /\ tasks' = tk
                                 /\ task_queue' = HeapPush(tk, task_queue, o)
                                 /\ UNCHANGED failed_tasks
                        ELSE /\ failed_tasks' = Append(failed_tasks, o)
                             /\ UNCHANGED <<tasks, task_queue>>
            ELSE UNCHANGED <<tasks, task_queue, active_tasks, failed_tasks>>

(* The status of the dict _handle_agent_error returns.  Without agent_id   *)
(* it returns status error at once.  With an agent that has no entry in    *)
(* agent_health the building of the result raises (the subscript          *)
(* agent_health["scout"], or asdict of the {} that .get falls back to) and *)
(* the except clause returns status error.                                 *)
HandleErrorStatus(agent_id) ==
    IF agent_id = None THEN "error"
    ELSE IF InHealth(agent_id) THEN "success"
    ELSE "error"

HandleError(agent_id, task_id) ==
    /\ HandleErrorEffect(agent_id, task_id)
    /\ UNCHANGED <<now, pending, running, sem_value, completed_tasks,
                   registered_agents, is_running, loops, last_discovery,
                   last_newsletter, hist,
                   failed_probes, agents, last_result>>

(* ------------------------------ _register_agent ------------------------ *)
RegisterEffect(agent_id, with_instance) ==
    /\ registered_agents' =
          IF with_instance /\ agent_id \notin Range(registered_agents)
          THEN Append(registered_agents, agent_id)
          ELSE registered_agents
    /\ agent_health' = [agent_health EXCEPT ![agent_id] = AgentHealth]
    /\ failed_probes' = [failed_probes EXCEPT ![agent_id] = 0]

RegisterAgent(agent_id, with_instance) ==
    /\ RegisterEffect(agent_id, with_instance)
    /\ UNCHANGED <<now, tasks, task_queue, pending, running, sem_value,
                   active_tasks, completed_tasks, failed_tasks, is_running,
                   loops, last_discovery, last_newsletter, hist, agents,
                   last_result>>

(* ----------------------- _start_scheduler / _stop_scheduler ------------ *)
FreeLoops == {i \in DOMAIN loops : loops[i].pc = "off"}

StartSchedulerEffect ==
    /\ IF is_running
       THEN UNCHANGED <<is_running, loops>>
       ELSE /\ FreeLoops # {}
            /\ is_running' = TRUE
            /\ LET i == CHOOSE j \in FreeLoops : \A k \in FreeLoops : j <= k
               IN  loops' = [loops EXCEPT ![i] = [pc |-> "ready", todo |-> <<>>,
                                                  size |-> 0, erred |-> FALSE]]
    /\ UNCHANGED <<now, tasks, task_queue, pending, running, sem_value,
                   active_tasks, completed_tasks, failed_tasks,
                   registered_agents, agent_health, last_discovery,
                   last_newsletter, hist,
                   failed_probes, agents>>

StartScheduler == StartSchedulerEffect /\ UNCHANGED last_result

StopSchedulerEffect ==
    /\ is_running' = FALSE
    /\ UNCHANGED <<now, tasks, task_queue, pending, running, sem_value,
                   active_tasks, completed_tasks, failed_tasks,
                   registered_agents, agent_health, loops, last_discovery,
                   last_newsletter, hist,
                   failed_probes, agents>>

StopScheduler == StopSchedulerEffect /\ UNCHANGED last_result

(* ------------------------------ _scheduler_loop ------------------------ *)
(* One iteration of loop i, from the test of `while self.is_running` to    *)
(* the first await: the due tasks are popped and an _execute_task is       *)
(* created for each, in pop order; then either the health sweep starts or  *)
(* the loop sleeps.                                                        *)
HealthSweepDue(t) == t % HealthCheckMinutes = 0

(* The sleep that ends an iteration of the loop.                           *)
SleepSeconds(rec) == IF rec.erred THEN ErrorSleep ELSE TickSleep

(* A loop test that never ends the loop.                                   *)
LoopContinues_Always(flag) == TRUE

(* while self.is_running                                                   *)
LoopContinues(flag) == flag

Tick(i) ==
    /\ loops[i].pc = "ready"
    /\ IF ~LoopContinues(is_running)
       THEN /\ loops' = [loops EXCEPT ![i] = [pc |-> "off", todo |-> <<>>, size |-> 0, erred |-> FALSE]]
            /\ UNCHANGED <<task_queue, pending>>
       ELSE LET r == PopDue(tasks, task_queue, now, <<>>)
            IN  /\ task_queue' = r.heap
                /\ pending' = pending \o r.popped
                /\ loops' = [loops EXCEPT ![i] =
                            IF HealthSweepDue(now) /\ registered_agents # <<>>
                            THEN [pc |-> "probe", todo |-> registered_agents,
                                  size |-> Len(registered_agents), erred |-> FALSE]
                            ELSE [pc |-> "sleep", todo |-> <<>>,
                                  size |-> 0, erred |-> FALSE]]
    /\ UNCHANGED <<now, tasks, running, sem_value, active_tasks,
                   completed_tasks, failed_tasks, registered_agents,
                   agent_health, is_running, last_discovery, last_newsletter,
                   hist,
                   failed_probes, agents, last_result>>

(* The asyncio.sleep that ends an iteration of loop i is over: the loop    *)
(* is runnable again and will test is_running when it next runs.           *)
Wake(i) ==
    /\ loops[i].pc = "sleep"
    /\ loops' = [loops EXCEPT ![i] = [pc |-> "ready", todo |-> <<>>,
                                      size |-> 0, erred |-> FALSE]]
    /\ UNCHANGED <<now, tasks, task_queue, pending, running, sem_value,
                   active_tasks, completed_tasks, failed_tasks,
                   registered_agents, agent_health, is_running,
                   last_discovery, last_newsletter, hist,
                   failed_probes, agents, last_result>>

(* ------------------------------ _perform_health_checks ----------------- *)
ProbeOutcomes == {"healthy", "unhealthy", "raise"}

HealthAfterProbe(h, outcome) ==
    IF ~h.present THEN h
    ELSE IF outcome = "raise"
         THEN [h EXCEPT !.is_healthy = FALSE, !.error_count = h.error_count + 1]
         ELSE [h EXCEPT !.is_healthy = (outcome = "healthy")]

(* The items() iterator of a dict raises RuntimeError on the step after    *)
(* the dict has changed size, the step that would end the iteration        *)
(* included.                                                               *)
DictChangedSize(d, size) == Len(d) # size

(* The probe of the agent at the head of the sweep returns or raises, its  *)
(* health entry is updated, and the for statement takes its next step: a   *)
(* RuntimeError of the iterator leaves _perform_health_checks and is       *)
(* caught by the except clause of the scheduler loop, which sleeps         *)
(* ErrorSleep seconds instead of TickSleep.                                *)
Probe(i, outcome) ==
    /\ loops[i].pc = "probe"
    /\ LET a == Head(loops[i].todo)
           rest == Tail(loops[i].todo)
       IN  /\ agent_health' = [agent_health EXCEPT ![a] = HealthAfterProbe(@, outcome)]
           /\ failed_probes' = [failed_probes EXCEPT
                                  ![a] = IF outcome = "healthy" THEN 0 ELSE @ + 1]
           /\ loops' = [loops EXCEPT ![i] =
                          IF DictChangedSize(registered_agents, loops[i].size)
                          THEN [pc |-> "sleep", todo |-> <<>>,
                                size |-> 0, erred |-> TRUE]
                          ELSE IF rest = <<>>
                          THEN [pc |-> "sleep", todo |-> <<>>,
                                size |-> 0, erred |-> FALSE]
                          ELSE [pc |-> "probe", todo |-> rest,
                                size |-> loops[i].size, erred |-> FALSE]]
    /\ UNCHANGED <<now, tasks, task_queue, pending, running, sem_value,
                   active_tasks, completed_tasks, failed_tasks,
                   registered_agents, is_running, last_discovery,
                   last_newsletter, hist, agents, last_result>>

(* ------------------------------ _execute_task -------------------------- *)
(* asyncio.Semaphore: acquire succeeds when a slot is free; waiters are    *)
(* served first come first served, so `pending` is one FIFO.               *)
(* An acquire that never waits.                                            *)
SemCanAcquire_Always(v) == TRUE

SemCanAcquire(v) == v > 0

(* A lookup that finds a handler for every stage.                          *)
HasHandler_Any(target, reg) == TRUE

(* self.registered_agents.get(agent_target) followed by `if target_agent`. *)
HasHandler(target, reg) == target \in Range(reg)

(* An execution that only logs its failure.                                *)
RecordFailed_LogOnly(failed, o) == failed

(* self.failed_tasks.append(scheduled_task), in the branch without a       *)
(* handler and in the except clause of _execute_task.                      *)
RecordFailed(failed, o) == Append(failed, o)

(* From `async with self.task_semaphore` to `await process_task(task)`;    *)
(* without a registered handler the coroutine runs to its end.             *)
StartExec ==
    /\ pending # <<>>
    /\ SemCanAcquire(sem_value)
    /\ LET o == Head(pending)
           id == tasks[o].task_id
       IN  /\ pending' = Tail(pending)
           /\ IF HasHandler(tasks[o].agent_target, registered_agents)
              THEN /\ active_tasks' = DictPut(active_tasks, id, o)
                   /\ running' = Append(running, o)
                   /\ sem_value' = sem_value - 1
                   /\ UNCHANGED failed_tasks
              ELSE /\ failed_tasks' = RecordFailed(failed_tasks, o)
                   /\ active_tasks' = DictPop(active_tasks, id)
                   /\ UNCHANGED <<running, sem_value>>
    /\ UNCHANGED <<now, tasks, task_queue, completed_tasks,
                   registered_agents, agent_health, is_running, loops,
                   last_discovery, last_newsletter, hist,
                   failed_probes, agents, last_result>>

(* What process_task can do: return status success with items, status      *)
(* success with no items, return status error, or raise.                   *)
HandlerOutcomes == {"success", "empty", "error", "raise"}

HealthAfterExec(h, outcome) ==
    IF ~h.present THEN h
    ELSE IF outcome \in {"success", "empty"}
         THEN [h EXCEPT !.success_count = h.success_count + 1]
         ELSE [h EXCEPT !.error_count = h.error_count + 1]

HistAfter(hrec, kind, outcome) ==
    IF outcome \in {"error", "raise"}
    THEN [hrec EXCEPT !.failures = @ + 1]
    ELSE [hrec EXCEPT !.successes = @ + 1,
                      !.nonempty = @ + (IF kind = "discovery" /\ outcome = "success"
                                        THEN 1 ELSE 0)]

(* From the return of process_task to the release of the semaphore.        *)
HandlerReturn(k, outcome) ==
    /\ k \in 1..Len(running)
    /\ LET o == running[k]
           id == tasks[o].task_id
           a == tasks[o].agent_target
       IN  /\ running' = RemoveOne(running, o)
           /\ sem_value' = sem_value + 1
           /\ active_tasks' = DictPop(active_tasks, id)
           /\ hist' = [hist EXCEPT ![o] = HistAfter(@, id[1], outcome)]
           /\ IF outcome = "raise"
              THEN /\ failed_tasks' = RecordFailed(failed_tasks, o)
                   /\ UNCHANGED <<completed_tasks, agent_health>>
              ELSE /\ completed_tasks' = Append(completed_tasks, o)
                   /\ agent_health' =
                        IF a \in DOMAIN agent_health
                        THEN [agent_health EXCEPT ![a] = HealthAfterExec(@, outcome)]
                        ELSE agent_health
                   /\ UNCHANGED failed_tasks
    /\ UNCHANGED <<now, tasks, task_queue, pending, registered_agents,
                   is_running, loops, last_discovery, last_newsletter,
                   failed_probes, agents, last_result>>

(* ------------------------------ the clock ------------------------------ *)
AdvanceClock ==
    /\ now' = now + 1
    /\ UNCHANGED <<tasks, task_queue, pending, running, sem_value,
                   active_tasks, completed_tasks, failed_tasks,
                   registered_agents, agent_health, is_running, loops,
                   last_discovery, last_newsletter, hist,
                   failed_probes, agents, last_result>>

(* ------------------------------ MultiAgentSystem ----------------------- *)
(* initialize_agents: the agents that have a configuration are created     *)
(* and put in agents, and every agent but the orchestrator is registered   *)
(* with the system's orchestrator, instance included.  A call on a system  *)
(* that already has agents replaces them: a new OrchestratorAgent starts   *)
(* from the state of its constructor, and the executions and loops of the  *)
(* one it replaces are no longer the system's.                             *)
InitializeAgents(scout_config, orchestrator_config) ==
    LET ags == agents \cup (IF scout_config THEN {"scout"} ELSE {})
                      \cup (IF orchestrator_config THEN {"orchestrator"} ELSE {})
    IN  /\ agents' = ags
        /\ IF orchestrator_config
           THEN /\ task_queue' = <<>>
                /\ pending' = <<>>
                /\ running' = <<>>
                /\ sem_value' = max_concurrent_tasks
                /\ active_tasks' = {}
                /\ completed_tasks' = <<>>
                /\ failed_tasks' = <<>>
                /\ is_running' = FALSE
                /\ loops' = [i \in DOMAIN loops |->
                               [pc |-> "off", todo |-> <<>>, size |-> 0, erred |-> FALSE]]
                /\ last_discovery' = NoTime
                /\ last_newsletter' = NoTime
                /\ registered_agents' = IF "scout" \in ags THEN <<"scout">> ELSE <<>>
                /\ agent_health' = [a \in DOMAIN agent_health |->
                                       IF a = "scout" /\ "scout" \in ags
                                       THEN AgentHealth ELSE NoHealth]
                /\ failed_probes' = [a \in DOMAIN failed_probes |-> 0]
           ELSE /\ IF "orchestrator" \in ags /\ "scout" \in ags
                   THEN RegisterEffect("scout", TRUE)
                   ELSE UNCHANGED <<registered_agents, agent_health, failed_probes>>
                /\ UNCHANGED <<task_queue, pending, running, sem_value,
                               active_tasks, completed_tasks, failed_tasks,
                               is_running, loops, last_discovery, last_newsletter>>
        /\ UNCHANGED <<now, tasks, hist, last_result>>

(* Every variable but last_result.                                         *)
orchestrator_vars ==
    <<now, tasks, task_queue, pending, running, sem_value, active_tasks,
      completed_tasks, failed_tasks, registered_agents, agent_health,
      is_running, loops, last_discovery, last_newsletter, hist,
      failed_probes, agents>>

(* The task types of ScoutAgent.process_task and of                        *)
(* OrchestratorAgent.process_task, and one type neither knows.             *)
ScoutTaskTypes == {"discover_rss", "scrape_url", "search_query", "get_metrics", "unknown"}

OrchestratorTaskTypes ==
    {"schedule_discovery", "coordinate_pipeline", "handle_error",
     "get_system_status", "register_agent", "start_scheduler",
     "stop_scheduler", "unknown"}

(* The dict of the except clause of process_task, and of every refusal.    *)
ErrorKeys == {"status", "message"}

(* Status and keys of the dict ScoutAgent.process_task returns; outcome    *)
(* says whether the operation worked or raised.                            *)
ScoutResult(task_type, outcome) ==
    LET ok == outcome \in {"success", "empty"}
    IN  IF task_type = "search_query"
        THEN [status |-> "not_implemented", keys |-> ErrorKeys]
        ELSE IF task_type = "discover_rss" /\ ok
        THEN [status |-> "success",
              keys |-> {"status", "feeds_processed", "articles_discovered",
                        "new_articles", "duplicates_filtered", "errors",
                        "articles"}]
        ELSE IF task_type = "scrape_url" /\ outcome = "success"
        THEN [status |-> "success", keys |-> {"status", "article"}]
        ELSE IF task_type = "get_metrics" /\ ok
        THEN [status |-> "success",
              keys |-> {"status", "total_sources", "total_content_discovered",
                        "unique_content_hashes", "source_metrics"}]
        ELSE [status |-> "error", keys |-> ErrorKeys]

HandleErrorKeys(status) ==
    IF status = "success"
    THEN {"status", "agent_id", "recovery_actions", "agent_health"}
    ELSE ErrorKeys

(* Status and keys of the dict OrchestratorAgent.process_task returns,     *)
(* read in the state before the call.                                      *)
OrchestratorResult(task_type, agent_id) ==
    IF task_type = "schedule_discovery"
    THEN IF DiscoveryDue(last_discovery, now)
         THEN [status |-> "success",
               keys |-> {"status", "task_id", "scheduled_time", "next_discovery"}]
         ELSE [status |-> "skipped",
               keys |-> {"status", "message", "last_discovery", "next_discovery"}]
    ELSE IF task_type = "coordinate_pipeline"
    THEN [status |-> "success",
          keys |-> {"status", "pipeline_status", "queue_size", "active_tasks"}]
    ELSE IF task_type = "handle_error"
    THEN [status |-> HandleErrorStatus(agent_id),
          keys |-> HandleErrorKeys(HandleErrorStatus(agent_id))]
    ELSE IF task_type = "get_system_status"
    THEN [status |-> "success", keys |-> {"status", "system_status"}]
    ELSE IF task_type = "register_agent"
    THEN IF agent_id = None
         THEN [status |-> "error", keys |-> ErrorKeys]
         ELSE [status |-> "success", keys |-> {"status", "agent_id", "registered_at"}]
    ELSE IF task_type = "start_scheduler"
    THEN [status |-> IF is_running THEN "warning" ELSE "success", keys |-> ErrorKeys]
    ELSE IF task_type = "stop_scheduler"
    THEN [status |-> IF is_running THEN "success" ELSE "warning", keys |-> ErrorKeys]
    ELSE [status |-> "error", keys |-> ErrorKeys]

(* What OrchestratorAgent.process_task does to the orchestrator.           *)
OrchestratorEffect(task_type, agent_id, task_id, with_instance) ==
    IF task_type = "schedule_discovery" THEN ScheduleDiscoveryEffect
    ELSE IF task_type = "coordinate_pipeline" THEN CoordinatePipelineEffect
    ELSE IF task_type = "handle_error"
    THEN /\ HandleErrorEffect(agent_id, task_id)
         /\ UNCHANGED <<now, pending, running, sem_value, completed_tasks,
                        registered_agents, is_running, loops, last_discovery,
                        last_newsletter, hist, failed_probes, agents>>
    ELSE IF task_type = "register_agent" /\ agent_id # None
    THEN /\ RegisterEffect(agent_id, with_instance)
         /\ UNCHANGED <<now, tasks, task_queue, pending, running, sem_value,
                        active_tasks, completed_tasks, failed_tasks, is_running,
                        loops, last_discovery, last_newsletter, hist, agents>>
    ELSE IF task_type = "start_scheduler" THEN StartSchedulerEffect
    ELSE IF task_type = "stop_scheduler" THEN StopSchedulerEffect
    ELSE UNCHANGED orchestrator_vars

(* What execute_task returns for an agent type that is not in agents.      *)
RefusedResult(agent_type) ==
    [agent_type |-> agent_type, known |-> FALSE, status |-> "error",
     keys |-> ErrorKeys, invoked |-> None]

(* MultiAgentSystem.execute_task: the task goes straight to process_task   *)
(* of the agent of its agent_type, past the orchestrator's queue, and the  *)
(* caller gets the dict that process_task returned.                        *)
SystemExecuteTask(agent_type, task_type, agent_id, task_id, with_instance, outcome) ==
    IF agent_type \notin agents
    THEN /\ last_result' = RefusedResult(agent_type)
         /\ UNCHANGED orchestrator_vars
    ELSE IF agent_type = "orchestrator"
    THEN /\ OrchestratorEffect(task_type, agent_id, task_id, with_instance)
         /\ last_result' =
               [agent_type |-> agent_type, known |-> TRUE,
                status |-> OrchestratorResult(task_type, agent_id).status,
                keys |-> OrchestratorResult(task_type, agent_id).keys,
                invoked |-> agent_type]
    ELSE /\ last_result' =
               [agent_type |-> agent_type, known |-> TRUE,
                status |-> ScoutResult(task_type, outcome).status,
                keys |-> ScoutResult(task_type, outcome).keys,
                invoked |-> agent_type]
         /\ UNCHANGED orchestrator_vars

(* execute_task with a handle_error task for the orchestrator.             *)
SystemHandleError(agent_id, task_id) ==
    SystemExecuteTask("orchestrator", "handle_error", agent_id, task_id, FALSE, "success")

(* ------------------------------ specification -------------------------- *)
(* The inputs of the operations, and the guards that keep the model        *)
(* finite: the number of ScheduledTask objects, the clock, and the error   *)
(* counter that handle_error and a raising probe increment.                *)
(* A producer gives its task the next unused name.                         *)
EnqueueIds == {Cardinality({o \in 1..Len(tasks) : tasks[o].task_id[1] = "task"}) + 1}
EnqueuePriorities == {CRITICAL, LOW}
EnqueueDelays == {0, 1}
EnqueueTargets == {"scout"}

KnownTaskIds == {tasks[o].task_id : o \in 1..Len(tasks)} \cup {NoTask}

Room(n) == Len(tasks) < n

ErrorRoom(a) == InHealth(a) => agent_health[a].error_count < MaxErrors

(* May the probe of the agent at the head of loop i's sweep end this way?  *)
ProbeRoom(i, r) ==
    /\ r = "raise" => ErrorRoom(Head(loops[i].todo))
    /\ r # "healthy" => failed_probes[Head(loops[i].todo)] < MaxProbeFails

Next ==
    \/ /\ Room(MaxTasks)
       /\ \E id \in EnqueueIds, t \in EnqueueTargets,
             p \in EnqueuePriorities, d \in EnqueueDelays : Enqueue(id, t, p, d)
    \/ Room(MaxTasks) /\ ScheduleDiscovery
    \/ Room(MaxTasks) /\ CoordinatePipeline
    \/ \E a \in Targets \cup {None}, id \in KnownTaskIds :
          ErrorRoom(a) /\ HandleError(a, id)
    \/ \E a \in AgentIds, b \in BOOLEAN : RegisterAgent(a, b)
    \/ StartScheduler
    \/ StopScheduler
    \/ \E i \in 1..MaxLoops : Tick(i)
    \/ \E i \in 1..MaxLoops : Wake(i)
    \/ \E i \in 1..MaxLoops, r \in ProbeOutcomes :
          /\ loops[i].pc = "probe"
          /\ ProbeRoom(i, r)
          /\ Probe(i, r)
    \/ StartExec
    \/ \E k \in 1..Len(running), r \in HandlerOutcomes : HandlerReturn(k, r)
    \/ now < MaxTime /\ AdvanceClock

Spec == Init /\ [][Next]_vars

(* The pipeline on its own: every task is created by the coordinator       *)
(* (schedule_discovery, coordinate_pipeline); no producer enqueues tasks   *)
(* of its own, which leaves room for more coordinator-made tasks.          *)
PipelineNext ==
    \/ Room(MaxPipelineTasks) /\ ScheduleDiscovery
    \/ Room(MaxPipelineTasks) /\ CoordinatePipeline
    \/ \E a \in Targets \cup {None}, id \in KnownTaskIds :
          ErrorRoom(a) /\ HandleError(a, id)
    \/ \E a \in AgentIds, b \in BOOLEAN : RegisterAgent(a, b)
    \/ StartScheduler
    \/ StopScheduler
    \/ \E i \in 1..MaxLoops : Tick(i)
    \/ \E i \in 1..MaxLoops : Wake(i)
    \/ \E i \in 1..MaxLoops, r \in ProbeOutcomes :
          /\ loops[i].pc = "probe"
          /\ ProbeRoom(i, r)
          /\ Probe(i, r)
    \/ StartExec
    \/ \E k \in 1..Len(running), r \in HandlerOutcomes : HandlerReturn(k, r)
    \/ now < MaxTime /\ AdvanceClock

PipelineSpec == Init /\ [][PipelineNext]_vars

(* Fair scheduling: the event loop runs every coroutine that can run (a   *)
(* sleeping scheduler loop wakes, a dispatched task gets its slot), time   *)
(* passes, and handlers and probes return.  The clock may run on past      *)
(* LiveMaxTime for as long as a queued task is not yet due.                *)
WaitingForClock == \E i \in 1..Len(task_queue) : ~Due(tasks[task_queue[i]], now)

LiveClock == (now < LiveMaxTime \/ WaitingForClock) /\ AdvanceClock

LiveProbe ==
    \E i \in 1..MaxLoops, r \in ProbeOutcomes :
        /\ loops[i].pc = "probe"
        /\ ProbeRoom(i, r)
        /\ Probe(i, r)

LiveReturn == \E k \in 1..Len(running), r \in HandlerOutcomes : HandlerReturn(k, r)

LiveTick == \E i \in 1..MaxLoops : Tick(i)

LiveWake == \E i \in 1..MaxLoops : Wake(i)

LiveNext ==
    \/ /\ Room(LiveMaxTasks)
       /\ now <= LiveMaxTime
       /\ \E id \in EnqueueIds, t \in EnqueueTargets,
             p \in EnqueuePriorities, d \in EnqueueDelays : Enqueue(id, t, p, d)
    \/ Room(LiveMaxTasks) /\ now <= LiveMaxTime /\ ScheduleDiscovery
    \/ Room(LiveMaxTasks) /\ now <= LiveMaxTime /\ CoordinatePipeline
    \/ \E a \in Targets \cup {None}, id \in KnownTaskIds :
          ErrorRoom(a) /\ HandleError(a, id)
    \/ \E a \in AgentIds, b \in BOOLEAN : RegisterAgent(a, b)
    \/ StartScheduler
    \/ StopScheduler
    \/ LiveTick
    \/ LiveWake
    \/ LiveProbe
    \/ StartExec
    \/ LiveReturn
    \/ LiveClock

LiveSpec ==
    /\ Init
    /\ [][LiveNext]_vars
    /\ WF_vars(LiveTick)
    /\ WF_vars(LiveWake)
    /\ WF_vars(LiveProbe)
    /\ WF_vars(StartExec)
    /\ WF_vars(LiveReturn)
    /\ WF_vars(LiveClock)

(* The same fair scheduling with room for a second task, so that a task    *)
(* can wait in task_queue behind another one; the producers hand in tasks  *)
(* of either priority, due now or a minute later.  handle_error may send   *)
(* tasks back for a retry QueueMaxRetries times in all.                    *)
RECURSIVE RetriesUpTo(_)
RetriesUpTo(n) == IF n = 0 THEN 0 ELSE tasks[n].retry_count + RetriesUpTo(n - 1)

(* May handle_error be called for this task_id within the bounds?          *)
RetryRoom(task_id) ==
    ( /\ task_id # NoTask
      /\ DictHas(active_tasks, task_id)
      /\ CanRetry(tasks[DictGet(active_tasks, task_id)]) )
    => RetriesUpTo(Len(tasks)) < QueueMaxRetries

QueueLiveNext ==
    \/ /\ Room(QueueMaxTasks)
       /\ now <= LiveMaxTime
       /\ \E id \in EnqueueIds, t \in EnqueueTargets,
             p \in EnqueuePriorities, d \in EnqueueDelays : Enqueue(id, t, p, d)
    \/ \E a \in Targets \cup {None}, id \in KnownTaskIds :
          ErrorRoom(a) /\ RetryRoom(id) /\ HandleError(a, id)
    \/ \E a \in AgentIds, b \in BOOLEAN : RegisterAgent(a, b)
    \/ StartScheduler
    \/ StopScheduler
    \/ LiveTick
    \/ LiveWake
    \/ LiveProbe
    \/ StartExec
    \/ LiveReturn
    \/ LiveClock

QueueLiveSpec ==
    /\ Init
    /\ [][QueueLiveNext]_vars
    /\ WF_vars(LiveTick)
    /\ WF_vars(LiveWake)
    /\ WF_vars(LiveProbe)
    /\ WF_vars(StartExec)
    /\ WF_vars(LiveReturn)
    /\ WF_vars(LiveClock)

(* The system as its owner drives it: initialize_agents, execute_task on   *)
(* a worker agent or on an agent type the system does not have, and the    *)
(* orchestrator's scheduling of discovery tasks.                           *)
SystemTaskTypes == {"scout", "orchestrator", "nonexistent"}

(* May this execute_task call be made within the bounds?                   *)
SystemRoom(agent_type, task_type, agent_id) ==
    (agent_type = "orchestrator" /\ agent_type \in agents)
    => ( /\ task_type \in {"schedule_discovery", "coordinate_pipeline"}
              => Room(LiveMaxTasks)
         /\ task_type = "handle_error" => ErrorRoom(agent_id) )

SystemNext ==
    \/ \E sc \in BOOLEAN, oc \in BOOLEAN : InitializeAgents(sc, oc)
    \/ \E ag \in SystemTaskTypes \ {"orchestrator"}, t \in ScoutTaskTypes,
          r \in HandlerOutcomes :
          SystemExecuteTask(ag, t, None, NoTask, FALSE, r)
    \/ \E t \in OrchestratorTaskTypes, a \in Targets \cup {None},
          id \in KnownTaskIds, b \in BOOLEAN :
          /\ SystemRoom("orchestrator", t, a)
          /\ t = "register_agent" => a \in AgentIds \cup {None}
          /\ SystemExecuteTask("orchestrator", t, a, id, b, "success")
    \/ "orchestrator" \in agents /\ Room(LiveMaxTasks) /\ ScheduleDiscovery
    \/ "orchestrator" \in agents /\ StartScheduler
    \/ "orchestrator" \in agents /\ StopScheduler
    \/ LiveTick
    \/ LiveWake
    \/ LiveProbe
    \/ StartExec
    \/ LiveReturn
    \/ now < LiveMaxTime /\ AdvanceClock

SystemSpec == Init /\ [][SystemNext]_vars

(* The same system with a health probe that may never return: every       *)
(* coroutine that can run is run and time passes, but nothing makes the    *)
(* awaited health_check call come back.                                    *)
HungProbeSpec ==
    /\ Init
    /\ [][LiveNext]_vars
    /\ WF_vars(LiveTick)
    /\ WF_vars(LiveWake)
    /\ WF_vars(StartExec)
    /\ WF_vars(LiveReturn)
    /\ WF_vars(LiveClock)

(* The same system with a handler that may never return: nothing makes    *)
(* the awaited process_task call come back.                                *)
HungHandlerSpec ==
    /\ Init
    /\ [][LiveNext]_vars
    /\ WF_vars(LiveTick)
    /\ WF_vars(LiveWake)
    /\ WF_vars(LiveProbe)
    /\ WF_vars(StartExec)
    /\ WF_vars(LiveClock)

(* Restarts: the owner stops the scheduler and starts it again while the   *)
(* loop of the previous start may still be in its sleep, so there is room   *)
(* for the _scheduler_loop coroutine of a second start.                    *)
RestartInit ==
    /\ now = 0
    /\ tasks = <<>>
    /\ task_queue = <<>>
    /\ pending = <<>>
    /\ running = <<>>
    /\ sem_value = max_concurrent_tasks
    /\ active_tasks = {}
    /\ completed_tasks = <<>>
    /\ failed_tasks = <<>>
    /\ registered_agents = <<>>
    /\ agent_health = [a \in AgentIds |-> NoHealth]
    /\ is_running = FALSE
    /\ loops = [i \in 1..RestartLoops |-> [pc |-> "off", todo |-> <<>>, size |-> 0, erred |-> FALSE]]
    /\ last_discovery = NoTime
    /\ last_newsletter = NoTime
    /\ hist = <<>>
    /\ failed_probes = [a \in AgentIds |-> 0]
    /\ agents = {}
    /\ last_result = NoResult

RestartNext ==
    \/ /\ Room(LiveMaxTasks)
       /\ \E id \in EnqueueIds, t \in EnqueueTargets,
             p \in EnqueuePriorities, d \in EnqueueDelays : Enqueue(id, t, p, d)
    \/ \E a \in AgentIds, b \in BOOLEAN : RegisterAgent(a, b)
    \/ StartScheduler
    \/ StopScheduler
    \/ \E i \in 1..RestartLoops : Tick(i)
    \/ \E i \in 1..RestartLoops : Wake(i)
    \/ \E i \in 1..RestartLoops, r \in ProbeOutcomes :
          /\ loops[i].pc = "probe"
          /\ ProbeRoom(i, r)
          /\ Probe(i, r)
    \/ StartExec
    \/ \E k \in 1..Len(running), r \in HandlerOutcomes : HandlerReturn(k, r)
    \/ now < LiveMaxTime /\ AdvanceClock

RestartSpec == RestartInit /\ [][RestartNext]_vars

(* Registration during a sweep: two agents register with the orchestrator *)
(* while the scheduler loop runs its health checks.                        *)
SweepAgentIds == {"scout", "curator"}

SweepInit ==
    /\ now = 0
    /\ tasks = <<>>
    /\ task_queue = <<>>
    /\ pending = <<>>
    /\ running = <<>>
    /\ sem_value = max_concurrent_tasks
    /\ active_tasks = {}
    /\ completed_tasks = <<>>
    /\ failed_tasks = <<>>
    /\ registered_agents = <<>>
    /\ agent_health = [a \in SweepAgentIds |-> NoHealth]
    /\ is_running = FALSE
    /\ loops = [i \in 1..MaxLoops |->
                   [pc |-> "off", todo |-> <<>>, size |-> 0, erred |-> FALSE]]
    /\ last_discovery = NoTime
    /\ last_newsletter = NoTime
    /\ hist = <<>>
    /\ failed_probes = [a \in SweepAgentIds |-> 0]
    /\ agents = {}
    /\ last_result = NoResult

SweepNext ==
    \/ \E a \in SweepAgentIds, b \in BOOLEAN : RegisterAgent(a, b)
    \/ StartScheduler
    \/ StopScheduler
    \/ \E i \in 1..MaxLoops : Tick(i)
    \/ \E i \in 1..MaxLoops : Wake(i)
    \/ \E i \in 1..MaxLoops, r \in ProbeOutcomes :
          /\ loops[i].pc = "probe"
          /\ ProbeRoom(i, r)
          /\ Probe(i, r)
    \/ now < LiveMaxTime /\ AdvanceClock

SweepSpec == SweepInit /\ [][SweepNext]_vars

(* ======================================================================= *)
(*                               The claims                                *)
(* ======================================================================= *)
Objects == 1..Len(tasks)
InQueue(o) == o \in Range(task_queue)
IsDue(o) == tasks[o].scheduled_time <= now
Count(s, o) == Cardinality({i \in 1..Len(s) : s[i] = o})
Terminal(o) == o \in Range(completed_tasks) \/ o \in Range(failed_tasks)
ActiveObjects == {e.obj : e \in active_tasks}
Kind(o) == tasks[o].task_id[1]
Stamp(o) == tasks[o].task_id[2]
Position(s, o) == CHOOSE i \in 1..Len(s) : s[i] = o

(* C1: when two queued tasks are both due at a scheduler tick, the less    *)
(* urgent one is never dispatched unless the more urgent one is dispatched *)
(* by the same tick and stands before it in the dispatch order, whatever   *)
(* the order in which they were enqueued.                                  *)
C1_UrgentDispatchedFirst ==
    [][Len(task_queue') < Len(task_queue) =>
       \A u \in Objects, l \in Objects :
          ( /\ InQueue(u) /\ InQueue(l)
            /\ IsDue(u) /\ IsDue(l)
            /\ tasks[u].priority < tasks[l].priority
            /\ l \notin Range(task_queue') )
          => ( /\ u \notin Range(task_queue')
               /\ u \in Range(pending') /\ l \in Range(pending')
               /\ Position(pending', u) < Position(pending', l) )]_vars

(* C1's case: one tick has dispatched two tasks, the more urgent first     *)
(* although it was enqueued last.                                          *)
C1_Witness ==
    /\ Len(pending) = 2
    /\ tasks[pending[1]].priority < tasks[pending[2]].priority
    /\ pending[1] > pending[2]

(* C2: the number of tasks whose handler is executing never exceeds        *)
(* max_concurrent_tasks.                                                   *)
C2_BoundedConcurrency == Len(running) <= max_concurrent_tasks

(* C2's case: every slot is taken and a dispatched task waits for one.     *)
C2_Witness ==
    /\ Len(running) = max_concurrent_tasks
    /\ pending # <<>>
    /\ tasks[Head(pending)].agent_target \in Range(registered_agents)

(* C3: a task whose handler has failed on every attempt is never recorded  *)
(* as completed, and it is on the failed list only after it has been       *)
(* re-dispatched exactly max_retries times, that is after max_retries + 1  *)
(* failed attempts.                                                        *)
C3_RetriedUntilExhausted ==
    \A o \in Objects :
        (hist[o].failures >= 1 /\ hist[o].successes = 0)
        => ( /\ o \notin Range(completed_tasks)
             /\ o \in Range(failed_tasks)
                   => hist[o].failures = tasks[o].max_retries + 1 )

(* C4: a task has at most one terminal record, and a task with a terminal  *)
(* record is neither queued nor active.                                    *)
C4_OneTerminalRecord ==
    \A o \in Objects :
        /\ Count(completed_tasks, o) + Count(failed_tasks, o) <= 1
        /\ Terminal(o) => (~InQueue(o) /\ o \notin ActiveObjects)

(* A step in which the handler of o fails (returns status error or raises) *)
FailureStep(o) == hist'[o].failures = hist[o].failures + 1

(* A step in which the handler of o returns status success.                *)
SuccessStep(o) == hist'[o].successes = hist[o].successes + 1

(* C6: when the handler of a task with retry_count = k < max_retries       *)
(* fails, the task is enqueued again with retry_count = k + 1 and          *)
(* scheduled_time = now + 2 * 2^k, and it gets no terminal record.         *)
C6_FailureSchedulesRetry ==
    [][\A o \in Objects :
          (FailureStep(o) /\ tasks[o].retry_count < tasks[o].max_retries)
          => ( /\ o \in Range(task_queue')
               /\ tasks'[o].retry_count = tasks[o].retry_count + 1
               /\ tasks'[o].scheduled_time = now + 2 * Pow2(tasks[o].retry_count)
               /\ o \notin Range(completed_tasks')
               /\ o \notin Range(failed_tasks') )]_vars

(* C7: a failed execution that brings the agent's error count to           *)
(* unhealthy_threshold leaves the agent unhealthy, and a successful        *)
(* execution leaves it healthy with an error count of 0.                   *)
C7_HealthFollowsExecutions ==
    [][\A o \in Objects :
          LET a == tasks[o].agent_target
          IN  InHealth(a) =>
                /\ ( FailureStep(o)
                     /\ agent_health'[a].error_count >= UnhealthyThreshold )
                   => ~agent_health'[a].is_healthy
                /\ SuccessStep(o)
                   => ( /\ agent_health'[a].is_healthy
                        /\ agent_health'[a].error_count = 0 )]_vars

(* C8: two tasks made by coordinator triggers never carry the same task   *)
(* id, and neither the start nor the completion of one task's execution    *)
(* removes or overwrites the active entry of another task.                 *)
C8_IndependentTasks ==
    /\ [](\A o1 \in Objects, o2 \in Objects :
            o1 # o2 => tasks[o1].task_id # tasks[o2].task_id)
    /\ [][\A o \in Objects :
            (FailureStep(o) \/ SuccessStep(o) \/ Count(running', o) > Count(running, o))
            => \A e \in active_tasks : e.obj # o => e \in active_tasks']_vars

RECURSIVE SumNonEmpty(_)
SumNonEmpty(n) == IF n = 0 THEN 0 ELSE hist[n].nonempty + SumNonEmpty(n - 1)

(* C10: the number of analysis tasks enqueued never exceeds the number of  *)
(* discovery runs that returned status success with a non-zero item count. *)
C10_AnalysisNeedsItems ==
    Cardinality({o \in Objects : Kind(o) = "curator"}) <= SumNonEmpty(Len(tasks))

Discoveries == {o \in Objects : Kind(o) = "discovery"}

(* C9: schedule_discovery enqueues a discovery task exactly when no        *)
(* discovery was scheduled before or discovery_interval has passed since   *)
(* the last one; so any two discovery tasks are enqueued at least          *)
(* discovery_interval apart.                                               *)
C9_DiscoveryEveryInterval ==
    /\ [](\A o1 \in Discoveries, o2 \in Discoveries :
            o1 < o2 => Stamp(o2) - Stamp(o1) >= discovery_interval)
    /\ []((last_discovery = NoTime \/ now - last_discovery >= discovery_interval)
            => ENABLED (ScheduleDiscovery /\ Len(tasks') = Len(tasks) + 1))
    /\ [][Len(tasks') > Len(tasks) /\ tasks'[Len(tasks')].task_id[1] = "discovery"
            => /\ last_discovery = NoTime \/ now - last_discovery >= discovery_interval
               /\ Len(tasks') = Len(tasks) + 1
               /\ tasks'[Len(tasks')].task_id[2] = now
               /\ Len(tasks') \in Range(task_queue')
               /\ last_discovery' = now]_vars

(* C9's case: a second discovery task was enqueued, discovery_interval     *)
(* after the first.                                                        *)
C9_Witness ==
    \E o1 \in Discoveries, o2 \in Discoveries :
        o1 < o2 /\ Stamp(o2) - Stamp(o1) = discovery_interval

(* C5: under fair scheduling, every task that is in the queue while the   *)
(* scheduler runs is eventually recorded in completed_tasks or             *)
(* failed_tasks, unless the scheduler is stopped first.                    *)
C5_NothingDiscarded ==
    \A o \in 1..QueueMaxTasks :
        (o \in Objects /\ InQueue(o) /\ is_running)
            ~> ((o \in Objects /\ Terminal(o)) \/ ~is_running)

(* C5's case: two tasks were in the queue together, a LOW one and a        *)
(* CRITICAL one due later; the LOW one was dispatched only after the       *)
(* CRITICAL one, and both have their record in completed_tasks.            *)
C5_Witness ==
    \E o1 \in Objects, o2 \in Objects :
        /\ tasks[o1].priority = LOW /\ tasks[o2].priority = CRITICAL
        /\ tasks[o1].retry_count = 0 /\ tasks[o2].retry_count = 0
        /\ tasks[o1].scheduled_time < tasks[o2].scheduled_time
        /\ Count(completed_tasks, o1) = 1 /\ Count(completed_tasks, o2) = 1
        /\ Position(completed_tasks, o2) < Position(completed_tasks, o1)
        /\ ~InQueue(o1) /\ ~InQueue(o2)
        /\ is_running

(* Objects created by the step.                                            *)
NewObjects == (Len(tasks) + 1)..Len(tasks')

(* Tasks made by the coordinator carry the coordinator's id prefixes.      *)
CoordinatorKinds == {"discovery", "curator", "newsletter"}

(* C11: while an agent's is_healthy is false, no coordinator operation     *)
(* enqueues a new task that targets this agent.                            *)
C11_NoTriggerWhileUnhealthy ==
    [][\A o \in NewObjects :
          LET a == tasks'[o].agent_target
          IN  (tasks'[o].task_id[1] \in CoordinatorKinds /\ InHealth(a))
              => agent_health[a].is_healthy]_vars

(* Curator tasks whose handler has returned status success.                *)
AnalyzedBacklog == Cardinality({o \in Objects : Kind(o) = "curator" /\ hist[o].successes > 0})

(* C12: coordinate_pipeline enqueues a newsletter task only when the       *)
(* cadence has elapsed and the analyzed backlog is not empty.              *)
C12_CompositionNeedsBacklog ==
    [][\A o \in NewObjects :
          tasks'[o].task_id[1] = "newsletter"
          => ( /\ NewsletterDue(last_newsletter, now)
               /\ AnalyzedBacklog > 0 )]_vars

(* C13: a task is appended to completed_tasks only by a step in which its  *)
(* handler returned status success.                                        *)
C13_CompletedMeansSuccess ==
    [][\A o \in Objects :
          Count(completed_tasks', o) > Count(completed_tasks, o)
          => SuccessStep(o)]_vars

(* C14: when the task taken for execution targets a stage without a        *)
(* registered handler, no handler runs, the task is appended to            *)
(* failed_tasks and is not retried, it has no active entry afterwards and  *)
(* no health record changes.                                               *)
C14_NoHandlerFailsAtOnce ==
    [][(Len(pending') < Len(pending)
        /\ tasks[Head(pending)].agent_target \notin Range(registered_agents))
       => LET o == Head(pending)
          IN  /\ failed_tasks' = Append(failed_tasks, o)
              /\ running' = running
              /\ sem_value' = sem_value
              /\ completed_tasks' = completed_tasks
              /\ tasks' = tasks
              /\ task_queue' = task_queue
              /\ ~DictHas(active_tasks', tasks[o].task_id)
              /\ hist' = hist
              /\ agent_health' = agent_health]_vars

(* C14's case: a task for a stage without a handler is on the failed list, *)
(* never run and never retried, while a registered agent has a health      *)
(* record.                                                                 *)
C14_Witness ==
    \E o \in Objects :
        /\ tasks[o].agent_target \notin Range(registered_agents)
        /\ o \in Range(failed_tasks)
        /\ hist[o] = NoHist
        /\ tasks[o].retry_count = 0
        /\ registered_agents # <<>>

(* C16: while the scheduler is stopped and the loop it stopped has not     *)
(* been started again, no operation adds a task to task_queue.             *)
C16_NoEnqueueWhileStopped ==
    [][(~is_running /\ \E i \in 1..MaxLoops : loops[i].pc # "off")
       => \A o \in Objects' : o \in Range(task_queue') => o \in Range(task_queue)]_vars

(* A step that is an iteration of the scheduler loop with the scheduler    *)
(* running: a runnable loop passes its is_running test, takes the due      *)
(* tasks from the queue and goes to its health sweep or to its sleep.      *)
TickStep ==
    \E i \in DOMAIN loops :
        /\ loops[i].pc = "ready"
        /\ loops'[i].pc \in {"probe", "sleep"}

(* C17: a scheduler tick removes every queued task that is due from the    *)
(* queue and dispatches it, whatever else is in the queue.                 *)
C17_EveryDueTaskDispatched ==
    [][TickStep =>
         \A o \in Objects :
            (InQueue(o) /\ IsDue(o))
            => (o \notin Range(task_queue') /\ o \in Range(pending'))]_vars

(* C18: a task that has left the queue and has not started has a free      *)
(* concurrency slot: due tasks beyond the free slots stay in task_queue.   *)
C18_QueuedUntilSlot == Len(pending) <= sem_value

(* C20: also when a health probe never returns, every queued task that is  *)
(* due while the scheduler runs is eventually taken from the queue and     *)
(* dispatched, unless the scheduler is stopped first.                      *)
C20_HungProbeDoesNotStall ==
    \A o \in 1..(LiveMaxTasks + 1) :
        (o \in Objects /\ InQueue(o) /\ IsDue(o) /\ is_running)
            ~> ((o \in Objects /\ ~InQueue(o)) \/ ~is_running)

(* A step in which a health probe of agent a fails (health_check returns   *)
(* False or raises), and one in which it succeeds.                         *)
FailedProbeStep(a) == failed_probes'[a] = failed_probes[a] + 1

GoodProbeStep(a) ==
    \E i \in 1..MaxLoops :
        /\ loops[i].pc = "probe" /\ Head(loops[i].todo) = a
        /\ loops'[i] # loops[i]
        /\ failed_probes'[a] = 0

(* C19: a failed probe turns is_healthy from true to false only when it is *)
(* at least the unhealthy_threshold-th failed probe in a row, and a        *)
(* successful probe leaves is_healthy true.                                *)
C19_ProbesFollowThreshold ==
    [][\A a \in AgentIds :
          InHealth(a) =>
            /\ ( FailedProbeStep(a)
                 /\ agent_health[a].is_healthy /\ ~agent_health'[a].is_healthy )
               => failed_probes'[a] >= UnhealthyThreshold
            /\ GoodProbeStep(a) => agent_health'[a].is_healthy]_vars

(* C15: execute_task on a task whose agent_type is not among the system's  *)
(* agents returns status "error" with an "error" field, calls no agent's   *)
(* process_task and changes nothing but the returned result.               *)
C15_UnknownAgentRefused ==
    /\ []((last_result # NoResult /\ ~last_result.known)
            => ( /\ last_result.status = "error"
                 /\ "error" \in last_result.keys
                 /\ last_result.invoked = None ))
    /\ [][(last_result' # last_result /\ ~last_result'.known)
            => UNCHANGED <<now, tasks, task_queue, pending, running, sem_value,
                           active_tasks, completed_tasks, failed_tasks,
                           registered_agents, agent_health, is_running, loops,
                           last_discovery, last_newsletter, agents>>]_vars

(* C21: also when a handler never returns, a task that is executing        *)
(* eventually leaves the executing ones and frees its slot, and a          *)
(* dispatched task that waits for a slot eventually gets one.              *)
C21_HungHandlerTimesOut ==
    \A o \in 1..(LiveMaxTasks + 1) :
        /\ (o \in Objects /\ o \in Range(running))
              ~> (o \in Objects /\ o \notin Range(running))
        /\ (o \in Objects /\ o \in Range(pending))
              ~> (o \in Objects /\ o \notin Range(pending))

(* The binary-heap property of a queue: no element is less than its parent. *)
IsHeap(tk, heap) ==
    \A p \in 1..(Len(heap) - 1) :
        ~TaskLt(tk[heap[p + 1]], tk[heap[((p - 1) \div 2) + 1]])

(* C22: no task has its priority or scheduled_time changed while it is an  *)
(* element of task_queue, and task_queue is a binary heap with respect to  *)
(* (priority, scheduled_time) in every reachable state.                    *)
C22_QueuedKeysFrozen ==
    /\ [](IsHeap(tasks, task_queue))
    /\ [][\A o \in Objects :
            (InQueue(o) /\ o \in Range(task_queue'))
            => ( /\ tasks'[o].priority = tasks[o].priority
                 /\ tasks'[o].scheduled_time = tasks[o].scheduled_time )]_vars

(* C22's case: a task that handle_error gave a new scheduled_time and      *)
(* re-enqueued sits in the queue together with another task.               *)
C22_Witness ==
    /\ Len(task_queue) >= 2
    /\ \E o \in Objects : InQueue(o) /\ tasks[o].retry_count > 0

(* C23: of two queued tasks of the same priority that are both due at a    *)
(* scheduler tick, the one with the later scheduled_time is never          *)
(* dispatched unless the earlier one is dispatched by the same tick and    *)
(* stands before it in the dispatch order.                                 *)
C23_SamePriorityByTime ==
    [][Len(task_queue') < Len(task_queue) =>
       \A u \in Objects, l \in Objects :
          ( /\ InQueue(u) /\ InQueue(l)
            /\ IsDue(u) /\ IsDue(l)
            /\ tasks[u].priority = tasks[l].priority
            /\ tasks[u].scheduled_time < tasks[l].scheduled_time
            /\ l \notin Range(task_queue') )
          => ( /\ u \notin Range(task_queue')
               /\ u \in Range(pending') /\ l \in Range(pending')
               /\ Position(pending', u) < Position(pending', l) )]_vars

(* C23's case: one tick has dispatched two tasks of the same priority, the *)
(* one with the earlier scheduled_time first although it was enqueued      *)
(* last.                                                                   *)
C23_Witness ==
    /\ Len(pending) = 2
    /\ tasks[pending[1]].priority = tasks[pending[2]].priority
    /\ tasks[pending[1]].scheduled_time < tasks[pending[2]].scheduled_time
    /\ pending[1] > pending[2]

(* C24: of two queued tasks with equal priority and equal scheduled_time,  *)
(* both enqueued once, the one enqueued later is never dispatched unless   *)
(* the one enqueued first is dispatched by the same tick and stands before *)
(* it in the dispatch order.  Objects are numbered in creation order.      *)
C24_EqualKeysInEnqueueOrder ==
    [][Len(task_queue') < Len(task_queue) =>
       \A u \in Objects, l \in Objects :
          ( /\ InQueue(u) /\ InQueue(l)
            /\ u < l
            /\ tasks[u].retry_count = 0 /\ tasks[l].retry_count = 0
            /\ tasks[u].priority = tasks[l].priority
            /\ tasks[u].scheduled_time = tasks[l].scheduled_time
            /\ l \notin Range(task_queue') )
          => ( /\ u \notin Range(task_queue')
               /\ u \in Range(pending') /\ l \in Range(pending')
               /\ Position(pending', u) < Position(pending', l) )]_vars

(* C25: at most one scheduler loop is live at any time: whenever the       *)
(* scheduler is running, no more than one _scheduler_loop coroutine has     *)
(* been started and not yet returned.                                      *)
LiveLoops == {i \in DOMAIN loops : loops[i].pc # "off"}

C25_OneLiveLoop == is_running => Cardinality(LiveLoops) <= 1

(* C26: a call of handle_error that returns status "error" has changed     *)
(* nothing: task_queue, active_tasks, failed_tasks and agent_health are as  *)
(* they were before the call.                                              *)
C26_ErrorMeansNoChange ==
    [][\A a \in Targets \cup {None}, id \in KnownTaskIds :
          (SystemHandleError(a, id) /\ last_result'.status = "error")
          => UNCHANGED <<task_queue, active_tasks, failed_tasks, agent_health>>]_vars

(* C27: every way an execution ends (the handler returns success or error, *)
(* the handler raises, or there is no handler) takes the task's id out of  *)
(* active_tasks and gives the slot back; so whenever no handler is running *)
(* active_tasks is empty and all max_concurrent_tasks slots are free.      *)
C27_ExecutionAlwaysCleansUp ==
    /\ [](running = <<>> => (active_tasks = {} /\ sem_value = max_concurrent_tasks))
    /\ [][\A o \in Objects :
            /\ (FailureStep(o) \/ SuccessStep(o))
                 => ( /\ ~DictHas(active_tasks', tasks[o].task_id)
                      /\ sem_value' = sem_value + 1 )
            /\ (pending # <<>> /\ o = Head(pending) /\ pending' = Tail(pending)
                  /\ running' = running)
                 => ( /\ ~DictHas(active_tasks', tasks[o].task_id)
                      /\ sem_value' = sem_value )]_vars

C27_Witness ==
    /\ running = <<>>
    /\ completed_tasks # <<>>
    /\ \E o \in Range(failed_tasks) : hist[o].failures > 0
    /\ \E o \in Range(failed_tasks) : hist[o].failures = 0 /\ hist[o].successes = 0

(* C28: every task has 0 <= retry_count <= max_retries; retry_count only   *)
(* changes by handle_error putting a task with retry_count < max_retries   *)
(* back on the queue with retry_count + 1; a task with retry_count =       *)
(* max_retries is never put on the queue, and handle_error moves it to     *)
(* failed_tasks.                                                           *)
C28_RetryCountBounded ==
    /\ [](\A o \in Objects :
            0 <= tasks[o].retry_count /\ tasks[o].retry_count <= tasks[o].max_retries)
    /\ [][\A o \in Objects :
            /\ (tasks'[o].retry_count # tasks[o].retry_count
                  \/ Count(task_queue', o) > Count(task_queue, o))
                 => ( /\ tasks[o].retry_count < tasks[o].max_retries
                      /\ tasks'[o].retry_count = tasks[o].retry_count + 1
                      /\ Count(task_queue', o) = Count(task_queue, o) + 1 )
            /\ ( /\ tasks[o].retry_count = tasks[o].max_retries
                 /\ o \in ActiveObjects /\ o \notin ActiveObjects'
                 /\ running' = running /\ pending' = pending )
                 => ( /\ failed_tasks' = Append(failed_tasks, o)
                      /\ task_queue' = task_queue )]_vars

C28_Witness ==
    \E o \in Objects :
        /\ tasks[o].retry_count = tasks[o].max_retries
        /\ o \in Range(failed_tasks)
        /\ o \in Range(running)
        /\ o \notin ActiveObjects

(* C29: while the scheduler is stopped no task leaves task_queue: from the *)
(* return of stop_scheduler until the next start_scheduler every step      *)
(* keeps every queued task in the queue.                                   *)
C29_StoppedQueueKept ==
    [][~is_running =>
          \A o \in Objects : Count(task_queue', o) >= Count(task_queue, o)]_vars

C29_Witness ==
    /\ ~is_running
    /\ \E o \in Objects : InQueue(o) /\ IsDue(o)
    /\ \E i \in DOMAIN loops : loops[i].pc = "sleep"
    /\ \E o \in Objects : Terminal(o)

(* C30: a registration made while a health-check sweep awaits a probe does *)
(* not disturb the sweep: after every probe the sweep goes on with the     *)
(* rest of the agents that were registered when it began, and the          *)
(* iteration of the scheduler loop ends with its sleep of TickSleep        *)
(* seconds.                                                                *)
C30_SweepSurvivesRegistration ==
    [][\A i \in DOMAIN loops :
          (loops[i].pc = "probe" /\ loops'[i] # loops[i])
          => ( /\ loops'[i].todo = Tail(loops[i].todo)
               /\ SleepSeconds(loops'[i]) = TickSleep )]_vars

====
